---- MODULE Spec2Model ----
(***************************************************************************)
(* MEDIMORPH (src/app_mongodb.py): the medication reminder engine.         *)
(*                                                                         *)
(*   - parse_frequency_to_times: frequency text -> daily reminder times    *)
(*   - the reminder store (Medication and Reminder documents)              *)
(*   - the reminder-ensuring step of POST /medications and of the startup  *)
(*     backfill                                                            *)
(*   - MongoMedicationReminder: start/stop, the loop thread, the tick      *)
(*                                                                         *)
(* Six specifications share the variables:                                 *)
(*   SpecParse    parse_frequency_to_times applied to bounded texts        *)
(*   SpecStore    process start-up, backfill, request handlers, restart    *)
(*   Spec         the reminder service as __main__ runs it, over a         *)
(*                populated store and a clock                              *)
(*   SpecService  the same with start and stop called while it serves      *)
(*   SpecShutdown the same with one stop and no start after it, under      *)
(*                fairness                                                 *)
(*   SpecFrame    Spec with the users taking their Medications             *)
(***************************************************************************)
EXTENDS Integers, Sequences, FiniteSets, Bags, TLC

VARIABLES
    frequency_text,  \* argument of the parse_frequency_to_times call under test
    times,           \* its return value (<<>> while not yet called)
    now,             \* the wall clock datetime.now() reads
    medications,     \* Medication collection, in insertion order (index = id)
    reminders,       \* Reminder collection, in insertion order (index = id)
    is_running,      \* MongoMedicationReminder.is_running
    reminder_thread, \* MongoMedicationReminder.reminder_thread (0 = None)
    thread,          \* the loop threads ever created, by thread id
    alerts,          \* bag of 'medication_reminder' events handed to socketio
    main,            \* the main thread: __main__ / initialize_mongodb_app
    request,         \* the request handler threads (POST /medications)
    ensured,         \* history: medications whose reminder-ensuring loop completed
    medication_logs  \* MedicationLog collection, in insertion order

vars == <<frequency_text, times, now, medications, reminders, is_running,
          reminder_thread, thread, alerts, main, request, ensured,
          medication_logs>>

(***************************************************************************)
(* Text.  A Python str is a sequence of one-character strings; None is a   *)
(* value that is no text.                                                  *)
(***************************************************************************)
None == <<"None">>

UpperCase == <<"A","B","C","D","E","F","G","H","I","J","K","L","M",
               "N","O","P","Q","R","S","T","U","V","W","X","Y","Z">>

LowerCase == <<"a","b","c","d","e","f","g","h","i","j","k","l","m",
               "n","o","p","q","r","s","t","u","v","w","x","y","z">>

\* str.lower() on one character
lower_char(c) ==
    IF \E k \in 1..Len(UpperCase) : UpperCase[k] = c
    THEN LowerCase[CHOOSE k \in 1..Len(UpperCase) : UpperCase[k] = c]
    ELSE c

\* str.lower()
lower(s) == [k \in 1..Len(s) |-> lower_char(s[k])]

\* Python's  kw in text  on str: kw occurs as a contiguous substring
Contains(kw, text) ==
    \E k \in 0..(Len(text) - Len(kw)) : SubSeq(text, k + 1, k + Len(kw)) = kw

\* (frequency_text or '')
OrEmpty(s) == IF s = None \/ s = <<>> THEN <<>> ELSE s

kw_1_1_1   == <<"1","-","1","-","1">>
kw_three   == <<"t","h","r","e","e">>
kw_tds     == <<"t","d","s">>
kw_1_0_1   == <<"1","-","0","-","1">>
kw_twice   == <<"t","w","i","c","e">>
kw_bid     == <<"b","i","d">>
kw_0_1_1   == <<"0","-","1","-","1">>
kw_1_1_0   == <<"1","-","1","-","0">>
kw_0_0_1   == <<"0","-","0","-","1">>
kw_night   == <<"n","i","g","h","t">>
kw_morning == <<"m","o","r","n","i","n","g">>
kw_1_0_0   == <<"1","-","0","-","0">>
kw_qid     == <<"q","i","d">>
kw_four    == <<"f","o","u","r">>

\* A plausible slip: the twice-daily rule tested before the thrice-daily one.
parse_frequency_to_times_reordered(ft) ==
    LET text == lower(OrEmpty(ft)) IN
    IF Contains(kw_1_0_1, text) \/ Contains(kw_twice, text) \/ Contains(kw_bid, text)
         \/ Contains(kw_0_1_1, text) \/ Contains(kw_1_1_0, text)
    THEN <<"09:00", "20:00">>
    ELSE IF Contains(kw_1_1_1, text) \/ Contains(kw_three, text) \/ Contains(kw_tds, text)
    THEN <<"09:00", "14:00", "20:00">>
    ELSE IF Contains(kw_0_0_1, text) \/ Contains(kw_night, text)
    THEN <<"20:00">>
    ELSE IF Contains(kw_morning, text) \/ Contains(kw_1_0_0, text)
    THEN <<"09:00">>
    ELSE IF Contains(kw_qid, text) \/ Contains(kw_four, text)
    THEN <<"08:00", "12:00", "16:00", "20:00">>
    ELSE <<"09:00">>

parse_frequency_to_times(ft) ==
    LET text == lower(OrEmpty(ft)) IN
    IF Contains(kw_1_1_1, text) \/ Contains(kw_three, text) \/ Contains(kw_tds, text)
    THEN <<"09:00", "14:00", "20:00">>
    ELSE IF Contains(kw_1_0_1, text) \/ Contains(kw_twice, text) \/ Contains(kw_bid, text)
              \/ Contains(kw_0_1_1, text) \/ Contains(kw_1_1_0, text)
    THEN <<"09:00", "20:00">>
    ELSE IF Contains(kw_0_0_1, text) \/ Contains(kw_night, text)
    THEN <<"20:00">>
    ELSE IF Contains(kw_morning, text) \/ Contains(kw_1_0_0, text)
    THEN <<"09:00">>
    ELSE IF Contains(kw_qid, text) \/ Contains(kw_four, text)
    THEN <<"08:00", "12:00", "16:00", "20:00">>
    ELSE <<"09:00">>

(***************************************************************************)
(* Bounds of the model.                                                    *)
(***************************************************************************)
MaxFragments == 2   \* fragments concatenated into a frequency text (SpecParse)
MaxDay == 1         \* the clock runs over days 0..MaxDay
SlotsPerMinute == 2 \* clock resolution: ticks of the clock per minute
MaxThreads == 2     \* loop threads ever created by start_reminder_service
MaxMeds == 2        \* Medication documents ever stored (SpecStore)
MaxRequests == 2    \* concurrent POST /medications handlers (SpecStore)
MaxRestarts == 1    \* process restarts (SpecStore)
MaxLogs == 1        \* MedicationLog documents ever stored (SpecFrame)

(***************************************************************************)
(* The clock.  datetime.now() is (day, slot): the calendar date and the    *)
(* position within the day, SlotsPerMinute slots to the minute.  The day   *)
(* keeps only the minutes listed in DayMinutes; the stretches between      *)
(* non-consecutive entries are elided (no Reminder is due in them, so a    *)
(* tick there reads the store and changes nothing).                        *)
(***************************************************************************)
DayMinutes == << [minute |-> 539,  hm |-> "08:59"],
                 [minute |-> 540,  hm |-> "09:00"],
                 [minute |-> 541,  hm |-> "09:01"],
                 [minute |-> 1200, hm |-> "20:00"] >>

SlotsPerDay == Len(DayMinutes) * SlotsPerMinute

SLEEP_SECONDS == 60

\* time.sleep(60), in clock slots
SleepSlots == (SLEEP_SECONDS * SlotsPerMinute) \div 60

JOIN_TIMEOUT_SECONDS == 5

\* join(timeout=5), in whole clock slots
JoinSlots == (JOIN_TIMEOUT_SECONDS * SlotsPerMinute) \div 60

DateTimes == [day : 0..MaxDay, slot : 0..(SlotsPerDay - 1)]

\* None where a datetime may stand (Reminder.last_sent)
NoneDT == [none |-> TRUE]

MinuteIndex(dt) == (dt.slot \div SlotsPerMinute) + 1

\* dt.strftime('%H:%M')
strftime_HM(dt) == DayMinutes[MinuteIndex(dt)].hm

\* dt.date()
date(dt) == dt.day

\* a datetime as the store keeps it: the engine reads a stored timestamp
\* through .date() only, and the model keeps that much of it
Stored(dt) == [day |-> dt.day]

\* position of dt on the model's time line
Instant(dt) == dt.day * SlotsPerDay + dt.slot

LastInstant == (MaxDay + 1) * SlotsPerDay - 1

\* the datetime one slot after dt
Successor(dt) ==
    IF dt.slot + 1 < SlotsPerDay
    THEN [day |-> dt.day, slot |-> dt.slot + 1]
    ELSE [day |-> dt.day + 1, slot |-> 0]

\* the step from dt to Successor(dt) passes over an elided stretch of the day
CrossesElided(dt) ==
    LET a == MinuteIndex(dt)
        b == MinuteIndex(Successor(dt)) IN
    /\ a # b
    /\ \/ b = 1
       \/ DayMinutes[b].minute # DayMinutes[a].minute + 1

(***************************************************************************)
(* The store.  Users are never deleted; Medication and Reminder documents  *)
(* are only ever inserted and updated, so a document's id is its index.    *)
(***************************************************************************)
Users == <<"u1", "u2">>

Names == {"aspirin"}

txt_1_0_1 == <<"1","-","0","-","1">>

\* frequency texts a client posts
Frequencies == {txt_1_0_1, None}

\* Medication(user_id, name, frequency, ...) ; is_active defaults to True
Medication(u, n, f) ==
    [user_id |-> u, name |-> n, frequency |-> f, is_active |-> TRUE]

\* Reminder(user_id, medication_id, time, is_active=True) ; last_sent None
Reminder(u, m, t) ==
    [user_id |-> u, medication_id |-> m, time |-> t,
     is_active |-> TRUE, last_sent |-> NoneDT]

\* the lookup of a Reminder, mutated: only the time is compared
ReminderExists_time_only(rs, u, m, t) ==
    \E k \in 1..Len(rs) : rs[k].time = t

\* the same, mutated: the lookup finds nothing
ReminderExists_never(rs, u, m, t) == FALSE

\* Reminder.objects(user_id=u, medication_id=m, time=t).first() is not None
ReminderExists(rs, u, m, t) ==
    \E k \in 1..Len(rs) :
        rs[k].user_id = u /\ rs[k].medication_id = m /\ rs[k].time = t

\* Medication.objects(id=m).first() is not None
MedicationExists(m) == m \in 1..Len(medications)

\* Medication.objects(user_id=u, name=n, is_active=True).first() is not None
ActiveMedicationNamed(u, n) ==
    \E m \in 1..Len(medications) :
        /\ medications[m].user_id = u
        /\ medications[m].name = n
        /\ medications[m].is_active

\* Medication.objects(user_id=u, is_active=True): ids in store order
RECURSIVE ActiveMedsFrom(_, _)
ActiveMedsFrom(u, m) ==
    IF m > Len(medications) THEN <<>>
    ELSE IF medications[m].user_id = u /\ medications[m].is_active
         THEN <<m>> \o ActiveMedsFrom(u, m + 1)
         ELSE ActiveMedsFrom(u, m + 1)

ActiveMeds(u) == ActiveMedsFrom(u, 1)

\* Reminder.objects(is_active=True): the documents as the cursor loads them
RECURSIVE ActiveRemindersFrom(_)
ActiveRemindersFrom(k) ==
    IF k > Len(reminders) THEN <<>>
    ELSE IF reminders[k].is_active
         THEN <<[id |-> k, doc |-> reminders[k]]>> \o ActiveRemindersFrom(k + 1)
         ELSE ActiveRemindersFrom(k + 1)

ActiveReminders == ActiveRemindersFrom(1)

\* the loop  for t in times: if not Reminder.objects(...).first(): Reminder(...).save()
\* run to completion with nothing interleaved, from position j of ts
RECURSIVE EnsureFrom(_, _, _, _, _)
EnsureFrom(rs, u, m, ts, j) ==
    IF j > Len(ts) THEN rs
    ELSE IF ReminderExists(rs, u, m, ts[j])
         THEN EnsureFrom(rs, u, m, ts, j + 1)
         ELSE EnsureFrom(Append(rs, Reminder(u, m, ts[j])), u, m, ts, j + 1)

(***************************************************************************)
(* MongoMedicationReminder.  A loop thread is at one of                    *)
(*   "new"    not created          "loop"   at  while self.is_running      *)
(*   "fetch"  in the tick, waiting for Reminder.objects(is_active=True)    *)
(*   "lookup" in _send_reminder_alert, waiting for the Medication query    *)
(*   "save"   in _send_reminder_alert, waiting for reminder.save()         *)
(*   "sleep"  in time.sleep(60)    "done"   returned from _reminder_loop   *)
(* Time passes while a thread waits for the store or sleeps, not while a   *)
(* thread is about to run.  medication is the local variable of            *)
(* _send_reminder_alert.  History fields: ticked (a tick has begun), due   *)
(* (ids the tick's cursor loaded as due), fired (ids sent in the tick),    *)
(* failed (id whose sending raised in the tick),                           *)
(* abandoned (ids due in the tick and dropped by the exception), raised    *)
(* (an exception has reached the loop's except clause).                    *)
(***************************************************************************)
Threads == 1..MaxThreads

\* None where a document may stand
NoneDoc == [none |-> TRUE]

NewThread ==
    [pc |-> "new", now_dt |-> NoneDT, snapshot |-> <<>>, i |-> 0,
     medication |-> NoneDoc, wake |-> 0,
     ticked |-> FALSE, due |-> {}, fired |-> {}, failed |-> 0, abandoned |-> {},
     raised |-> FALSE]

\* lines 406-408: the Reminder loaded as rem is to be sent in the tick of now_dt
Due(rem, now_dt) ==
    /\ rem.doc.time = strftime_HM(now_dt)
    /\ \/ rem.doc.last_sent = NoneDT
       \/ date(rem.doc.last_sent) # date(now_dt)

\* the for loop of line 404 from position j: the next Reminder to send
RECURSIVE NextDue(_, _, _)
NextDue(snapshot, now_dt, j) ==
    IF j > Len(snapshot) THEN j
    ELSE IF Due(snapshot[j], now_dt) THEN j
         ELSE NextDue(snapshot, now_dt, j + 1)

\* the Reminders from position j on that the for loop would still send
Remaining(snapshot, now_dt, j) ==
    {snapshot[k].id : k \in {n \in j..Len(snapshot) : Due(snapshot[n], now_dt)}}

\* the thread goes on with the for loop at position j: into
\* _send_reminder_alert for the next due Reminder, or out of the tick and
\* into time.sleep(60) (line 395)
Resume(th, j) ==
    LET n == NextDue(th.snapshot, th.now_dt, j) IN
    IF n > Len(th.snapshot)
    THEN [th EXCEPT !.pc = "sleep", !.snapshot = <<>>, !.i = 0,
                    !.medication = NoneDoc, !.wake = Instant(now) + SleepSlots]
    ELSE [th EXCEPT !.pc = "lookup", !.i = n, !.medication = NoneDoc]

\* the alert of lines 417-428, with the room it is emitted to
Alert(rem, medication_id, dt) ==
    [type |-> "medication_reminder",
     reminder_id |-> rem.id,
     medication_id |-> medication_id,
     time |-> rem.doc.time,
     date |-> date(dt),
     room |-> <<"user_", rem.doc.user_id>>]

\* lines 379-383
start_reminder_service ==
    /\ ~is_running
    /\ \E t \in Threads :
         /\ thread[t].pc = "new"
         /\ \A o \in Threads : o < t => thread[o].pc # "new"
         /\ is_running' = TRUE
         /\ thread' = [thread EXCEPT ![t] = [NewThread EXCEPT !.pc = "loop"]]
         /\ reminder_thread' = t

\* lines 633-634: the main thread starts the service and goes on to serve
MainStart ==
    /\ main.pc = "start"
    /\ start_reminder_service
    /\ main' = [main EXCEPT !.pc = "serve"]
    /\ UNCHANGED <<frequency_text, times, now, medications, reminders, alerts,
                   request, ensured,
                   medication_logs>>

\* a later call of reminder_system.start_reminder_service(); the calls of
\* the service's interface are made one after the other
CallStart ==
    /\ main.pc = "serve"
    /\ start_reminder_service
    /\ UNCHANGED <<frequency_text, times, now, medications, reminders, alerts,
                   main, request, ensured,
                   medication_logs>>

\* a loop thread waiting for the store or in time.sleep(60)
Blocked(t) == thread[t].pc \in {"fetch", "lookup", "save", "sleep"}

\* lines 386-388 up to the wait: is_running is cleared and, when a loop
\* thread was ever created, the caller enters join(timeout=5).  History:
\* main.stopped_in_tick (the loop thread was inside a tick at the call),
\* main.timed_out (set by JoinReturn: the join ran out on a live thread)
stop_reminder_service ==
    /\ main.pc = "serve"
    /\ is_running
    /\ is_running' = FALSE
    /\ main' = IF reminder_thread # 0
               THEN [main EXCEPT !.pc = "join",
                                 !.deadline = Instant(now) + JoinSlots,
                                 !.stopped_in_tick =
                                     thread[reminder_thread].pc
                                         \in {"fetch", "lookup", "save"}]
               ELSE main
    /\ UNCHANGED <<frequency_text, times, now, medications, reminders,
                   reminder_thread, thread, alerts, request, ensured,
                   medication_logs>>

\* line 388: join returns, the loop thread having returned or the timeout
\* having run out on a thread that is blocked
JoinReturn ==
    /\ main.pc = "join"
    /\ \/ thread[reminder_thread].pc = "done"
       \/ Blocked(reminder_thread) /\ Instant(now) >= main.deadline
    /\ main' = [main EXCEPT !.pc = "serve", !.deadline = 0,
                            !.timed_out = thread[reminder_thread].pc # "done"]
    /\ UNCHANGED <<frequency_text, times, now, medications, reminders, is_running,
                   reminder_thread, thread, alerts, request, ensured,
                   medication_logs>>

\* the same, mutated: the loop goes on whatever is_running
LoopEnter_unconditional(t) ==
    /\ thread[t].pc = "loop"
    /\ thread' = [thread EXCEPT ![t] =
          [@ EXCEPT !.pc = "fetch", !.now_dt = now, !.snapshot = <<>>,
                    !.i = 0, !.wake = 0, !.ticked = TRUE, !.fired = {},
                    !.due = {}, !.failed = 0, !.abandoned = {}]]
    /\ UNCHANGED <<frequency_text, times, now, medications, reminders, is_running,
                   reminder_thread, alerts, main, request, ensured,
                   medication_logs>>

\* line 391, and lines 401-402 when the loop goes on
LoopEnter(t) ==
    /\ thread[t].pc = "loop"
    /\ thread' = [thread EXCEPT ![t] =
          IF is_running
          THEN [@ EXCEPT !.pc = "fetch", !.now_dt = now, !.snapshot = <<>>,
                         !.i = 0, !.wake = 0, !.ticked = TRUE, !.fired = {},
                         !.due = {}, !.failed = 0, !.abandoned = {}]
          ELSE [@ EXCEPT !.pc = "done"]]
    /\ UNCHANGED <<frequency_text, times, now, medications, reminders, is_running,
                   reminder_thread, alerts, main, request, ensured,
                   medication_logs>>

\* lines 403-404: the cursor loads the active Reminders
Fetch(t) ==
    /\ thread[t].pc = "fetch"
    /\ thread' = [thread EXCEPT ![t] =
          Resume([thread[t] EXCEPT
                     !.snapshot = ActiveReminders,
                     !.due = Remaining(ActiveReminders, thread[t].now_dt, 1)], 1)]
    /\ UNCHANGED <<frequency_text, times, now, medications, reminders, is_running,
                   reminder_thread, alerts, main, request, ensured,
                   medication_logs>>

\* lines 412-414, mutated: an inactive Medication is skipped too
LookupPasses_active_only(m) == MedicationExists(m) /\ medications[m].is_active

\* lines 412-414: the Medication query returned a document
LookupPasses(m) == MedicationExists(m)

Lookup(t) ==
    /\ thread[t].pc = "lookup"
    /\ LET rem == thread[t].snapshot[thread[t].i] IN
       thread' = [thread EXCEPT ![t] =
          IF LookupPasses(rem.doc.medication_id)
          THEN [@ EXCEPT !.pc = "save",
                         !.medication = medications[rem.doc.medication_id]]
          ELSE Resume(@, @.i + 1)]
    /\ UNCHANGED <<frequency_text, times, now, medications, reminders, is_running,
                   reminder_thread, alerts, main, request, ensured,
                   medication_logs>>

\* line 415: the timestamp written to last_sent
SentAt_none(th) == NoneDT

SentAt(th) == Stored(now)

\* the same, mutated: the sending also stores a MedicationLog
Save_logging(t) ==
    /\ thread[t].pc = "save"
    /\ LET rem == thread[t].snapshot[thread[t].i]
           at  == SentAt(thread[t]) IN
       /\ reminders' = [reminders EXCEPT ![rem.id].last_sent = at]
       /\ alerts' = alerts (+) SetToBag({Alert(rem, rem.doc.medication_id, now)})
       /\ thread' = [thread EXCEPT ![t] =
             Resume([@ EXCEPT !.fired = @ \cup {rem.id}], @.i + 1)]
       /\ medication_logs' =
             Append(medication_logs,
                    [user_id |-> rem.doc.user_id,
                     medication_id |-> rem.doc.medication_id])
    /\ UNCHANGED <<frequency_text, times, now, medications, is_running,
                   reminder_thread, main, request, ensured>>

\* lines 415-429: last_sent is saved and the alert emitted
Save(t) ==
    /\ thread[t].pc = "save"
    /\ LET rem == thread[t].snapshot[thread[t].i]
           at  == SentAt(thread[t]) IN
       /\ reminders' = [reminders EXCEPT ![rem.id].last_sent = at]
       /\ alerts' = alerts (+) SetToBag({Alert(rem, rem.doc.medication_id, now)})
       /\ thread' = [thread EXCEPT ![t] =
             Resume([@ EXCEPT !.fired = @ \cup {rem.id}], @.i + 1)]
    /\ UNCHANGED <<frequency_text, times, now, medications, is_running,
                   reminder_thread, main, request, ensured,
                   medication_logs>>

\* a store operation of the tick raises: the exception leaves
\* _check_and_send_reminders and is caught at lines 396-398
StoreError(t) ==
    /\ thread[t].pc \in {"fetch", "lookup", "save"}
    /\ LET th == thread[t] IN
       thread' = [thread EXCEPT ![t] =
          [th EXCEPT !.pc = "sleep", !.snapshot = <<>>, !.i = 0,
                     !.medication = NoneDoc,
                     !.failed = IF th.pc = "fetch" THEN 0 ELSE th.snapshot[th.i].id,
                     !.abandoned = IF th.pc = "fetch" THEN {}
                                   ELSE Remaining(th.snapshot, th.now_dt, th.i + 1),
                     !.raised = TRUE,
                     !.wake = Instant(now) + SleepSlots]]
    /\ UNCHANGED <<frequency_text, times, now, medications, reminders, is_running,
                   reminder_thread, alerts, main, request, ensured,
                   medication_logs>>

\* time.sleep(60) returns
Wake(t) ==
    /\ thread[t].pc = "sleep"
    /\ Instant(now) >= thread[t].wake
    /\ thread' = [thread EXCEPT ![t].pc = "loop"]
    /\ UNCHANGED <<frequency_text, times, now, medications, reminders, is_running,
                   reminder_thread, alerts, main, request, ensured,
                   medication_logs>>

\* the clock moves on by one slot
AdvanceClock ==
    /\ Instant(now) < LastInstant
    /\ main.pc # "start"
    /\ main.pc = "join" => main.deadline > Instant(now)
    /\ \A t \in Threads :
         /\ thread[t].pc # "loop"
         /\ thread[t].pc = "sleep" => thread[t].wake > Instant(now)
         /\ CrossesElided(now) => thread[t].pc \notin {"fetch", "lookup", "save"}
    /\ now' = Successor(now)
    /\ UNCHANGED <<frequency_text, times, medications, reminders, is_running,
                   reminder_thread, thread, alerts, main, request, ensured,
                   medication_logs>>

\* the server of line 636 is running
Serving == main.pc \in {"serve", "join"}

\* DELETE /medications/<id>, lines 308-313, by the Medication's owner
delete_medication(m) ==
    /\ Serving
    /\ m \in 1..Len(medications)
    /\ medications' = [medications EXCEPT ![m].is_active = FALSE]
    /\ UNCHANGED <<frequency_text, times, now, reminders, is_running,
                   reminder_thread, thread, alerts, main, request, ensured,
                   medication_logs>>

\* MedicationLog(user_id, medication_id, notes='')
MedicationLog(u, m) == [user_id |-> u, medication_id |-> m]

\* POST /take-medication/<id>, lines 322-330, by the Medication's owner
take_medication(m) ==
    /\ Serving
    /\ m \in 1..Len(medications)
    /\ Len(medication_logs) < MaxLogs
    /\ medication_logs' =
          Append(medication_logs, MedicationLog(medications[m].user_id, m))
    /\ UNCHANGED <<frequency_text, times, now, medications, reminders, is_running,
                   reminder_thread, thread, alerts, main, request, ensured>>

(***************************************************************************)
(* Spec: the reminder service.  The process has initialised over a store   *)
(* holding two Medications and the Reminders their frequencies ensure; the *)
(* main thread is about to start the service (line 633).                   *)
(***************************************************************************)
NoRequest == [pc |-> "idle", user |-> "", name |-> "", frequency |-> None,
              med |-> 0, ts |-> <<>>, j |-> 0]

MainAt(pc) == [pc |-> pc, u |-> 0, k |-> 0, j |-> 0, completed |-> TRUE,
               boots |-> 0, present |-> {}, missing |-> {}, reran |-> FALSE,
               raced |-> FALSE, deadline |-> 0, stopped_in_tick |-> FALSE,
               timed_out |-> FALSE]

StoredMedications ==
    << Medication("u1", "aspirin", txt_1_0_1), Medication("u2", "aspirin", None) >>

RECURSIVE EnsuredReminders(_, _)
EnsuredReminders(meds, m) ==
    IF m = 0 THEN <<>>
    ELSE EnsureFrom(EnsuredReminders(meds, m - 1), meds[m].user_id, m,
                    parse_frequency_to_times(meds[m].frequency), 1)

Init ==
    /\ frequency_text = None
    /\ times = <<>>
    /\ now = [day |-> 0, slot |-> 0]
    /\ medications = StoredMedications
    /\ reminders = EnsuredReminders(StoredMedications, Len(StoredMedications))
    /\ is_running = FALSE
    /\ reminder_thread = 0
    /\ thread = [t \in Threads |-> NewThread]
    /\ alerts = EmptyBag
    /\ main = [MainAt("start") EXCEPT !.present = {1, 2}]
    /\ request = [h \in 1..MaxRequests |-> NoRequest]
    /\ ensured = {1, 2}
    /\ medication_logs = <<>>

\* the program as __main__ runs it: the service is started once (line 634)
\* and nothing calls stop_reminder_service
Next ==
    \/ MainStart
    \/ \E t \in Threads : LoopEnter(t)
    \/ \E t \in Threads : Fetch(t)
    \/ \E t \in Threads : Lookup(t)
    \/ \E t \in Threads : Save(t)
    \/ \E t \in Threads : StoreError(t)
    \/ \E t \in Threads : Wake(t)
    \/ AdvanceClock
    \/ \E m \in 1..Len(StoredMedications) : delete_medication(m)

Spec == Init /\ [][Next]_vars

\* the service's start/stop interface called at any time while the process
\* serves, over a store that answers every operation
NextService ==
    \/ MainStart
    \/ CallStart
    \/ stop_reminder_service
    \/ JoinReturn
    \/ \E t \in Threads : LoopEnter(t)
    \/ \E t \in Threads : Fetch(t)
    \/ \E t \in Threads : Lookup(t)
    \/ \E t \in Threads : Save(t)
    \/ \E t \in Threads : Wake(t)
    \/ AdvanceClock

SpecService == Init /\ [][NextService]_vars

\* the service started by __main__ and stopped at any time while the
\* process serves, with no start after the stop, over a store that answers
\* every operation
NextShutdown ==
    \/ MainStart
    \/ stop_reminder_service
    \/ JoinReturn
    \/ \E t \in Threads : LoopEnter(t)
    \/ \E t \in Threads : Fetch(t)
    \/ \E t \in Threads : Lookup(t)
    \/ \E t \in Threads : Save(t)
    \/ \E t \in Threads : Wake(t)
    \/ AdvanceClock

\* a thread that can run does run, a store operation and a sleep return,
\* join returns when it may, and time passes
FairShutdown ==
    /\ WF_vars(MainStart)
    /\ WF_vars(JoinReturn)
    /\ \A t \in Threads :
          /\ WF_vars(LoopEnter(t))
          /\ WF_vars(Fetch(t))
          /\ WF_vars(Lookup(t))
          /\ WF_vars(Save(t))
          /\ WF_vars(Wake(t))
    /\ WF_vars(AdvanceClock)

SpecShutdown == Init /\ [][NextShutdown]_vars /\ FairShutdown

\* the program as __main__ runs it, with the users deleting and taking
\* their Medications while the loop runs
NextFrame ==
    \/ MainStart
    \/ \E t \in Threads : LoopEnter(t)
    \/ \E t \in Threads : Fetch(t)
    \/ \E t \in Threads : Lookup(t)
    \/ \E t \in Threads : Save(t)
    \/ \E t \in Threads : StoreError(t)
    \/ \E t \in Threads : Wake(t)
    \/ AdvanceClock
    \/ \E m \in 1..Len(StoredMedications) : delete_medication(m)
    \/ \E m \in 1..Len(StoredMedications) : take_medication(m)

SpecFrame == Init /\ [][NextFrame]_vars

(***************************************************************************)
(* SpecStore: the paths that create Reminders.  The process starts over    *)
(* an empty store, runs the startup backfill, starts the service and       *)
(* serves; request handlers run concurrently with one another and with     *)
(* the loop thread; the process may be killed and started again over the   *)
(* store it left.  The clock stands still: only the loop thread's entry    *)
(* into its first tick is followed.                                        *)
(*                                                                         *)
(* A request handler is at one of                                          *)
(*   "idle"    no request            "save"   about to medication.save()   *)
(*   "lookup"  about to query Reminder.objects(user_id, medication_id,     *)
(*             time).first()         "insert" about to Reminder(...).save()*)
(* The main thread in backfill_reminders_for_all_users is at position      *)
(* (u, k, j): user u of User.objects(), Medication k of that user's        *)
(* active Medications, time j of its parse.                                *)
(* History: ensured (ids of the Medications for which the ensuring loop    *)
(* has run to its end), main.raced (a handler's lookup has run while       *)
(* another handler stood between its lookup and its insert for the same    *)
(* user and time), main.completed (the backfill of this start returned     *)
(* without an exception), main.present and main.missing (the Medications   *)
(* active at this start, and those of them that lacked a Reminder),        *)
(* main.reran (the backfill has gone through a Medication in ensured).     *)
(***************************************************************************)
Handlers == 1..MaxRequests

\* medication.id after medication.save(), mutated: every document gets id 1
MedicationId_shared(meds) == 1

\* medication.id after medication.save(): a fresh id
MedicationId(meds) == Len(meds) + 1

\* every time of Medication m's parse has its Reminder in rs
Covered(rs, meds, m) ==
    LET ts == parse_frequency_to_times(meds[m].frequency)
    IN  \A j \in 1..Len(ts) :
            \E k \in 1..Len(rs) : /\ rs[k].user_id = meds[m].user_id
                                  /\ rs[k].medication_id = m
                                  /\ rs[k].time = ts[j]

\* lines 164-170: the name is given and no active Medication of the user
\* has it
medications_check(h, u, n, f) ==
    /\ Serving
    /\ request[h].pc = "idle"
    /\ Len(medications) < MaxMeds
    /\ ~ActiveMedicationNamed(u, n)
    /\ request' = [request EXCEPT ![h] =
          [NoRequest EXCEPT !.pc = "save", !.user = u, !.name = n,
                            !.frequency = f]]
    /\ UNCHANGED <<frequency_text, times, now, medications, reminders, is_running,
                   reminder_thread, thread, alerts, main, ensured,
                   medication_logs>>

\* lines 172-185: the Medication is saved and its frequency parsed
medications_save(h) ==
    /\ request[h].pc = "save"
    /\ Len(medications) < MaxMeds
    /\ LET r == request[h]
       IN  /\ request' = [request EXCEPT ![h] =
                 [r EXCEPT !.pc = "lookup", !.med = MedicationId(medications),
                           !.ts = parse_frequency_to_times(r.frequency),
                           !.j = 1]]
           /\ medications' =
                 Append(medications, Medication(r.user, r.name, r.frequency))
    /\ UNCHANGED <<frequency_text, times, now, reminders, is_running,
                   reminder_thread, thread, alerts, main, ensured,
                   medication_logs>>

\* the handler after iteration j of  for t in times  (lines 186-190)
AfterTime(r) ==
    IF r.j < Len(r.ts) THEN [r EXCEPT !.pc = "lookup", !.j = @ + 1]
    ELSE NoRequest

EnsuredAfter(r) == IF r.j < Len(r.ts) THEN ensured ELSE ensured \cup {r.med}

\* line 187: the lookup of the key
medications_lookup(h) ==
    /\ request[h].pc = "lookup"
    /\ LET r == request[h]
           t == r.ts[r.j]
           racing == \E o \in Handlers \ {h} :
                        /\ request[o].pc = "insert"
                        /\ request[o].user = r.user
                        /\ request[o].ts[request[o].j] = t
       IN  /\ main' = [main EXCEPT !.raced = @ \/ racing]
           /\ IF ReminderExists(reminders, r.user, r.med, t)
              THEN /\ request' = [request EXCEPT ![h] = AfterTime(r)]
                   /\ ensured' = EnsuredAfter(r)
              ELSE /\ request' = [request EXCEPT ![h] = [r EXCEPT !.pc = "insert"]]
                   /\ UNCHANGED ensured
    /\ UNCHANGED <<frequency_text, times, now, medications, reminders, is_running,
                   reminder_thread, thread, alerts,
                   medication_logs>>

\* line 188: the insert
medications_insert(h) ==
    /\ request[h].pc = "insert"
    /\ LET r == request[h]
       IN  /\ reminders' = Append(reminders, Reminder(r.user, r.med, r.ts[r.j]))
           /\ request' = [request EXCEPT ![h] = AfterTime(r)]
           /\ ensured' = EnsuredAfter(r)
    /\ UNCHANGED <<frequency_text, times, now, medications, is_running,
                   reminder_thread, thread, alerts, main,
                   medication_logs>>

\* lines 191-192: a store operation of the handler raises, the handler
\* answers 500
medications_except(h) ==
    /\ request[h].pc \in {"save", "lookup", "insert"}
    /\ request' = [request EXCEPT ![h] = NoRequest]
    /\ UNCHANGED <<frequency_text, times, now, medications, reminders, is_running,
                   reminder_thread, thread, alerts, main, ensured,
                   medication_logs>>

\* the position of the backfill's next lookup at or after (u, k, j), lines
\* 572-576; u beyond the users when the loops are exhausted
RECURSIVE BackfillPos(_, _, _)
BackfillPos(u, k, j) ==
    IF u > Len(Users) THEN [u |-> u, k |-> 1, j |-> 1]
    ELSE LET meds == ActiveMeds(Users[u])
         IN  IF k > Len(meds) THEN BackfillPos(u + 1, 1, 1)
             ELSE IF j > Len(parse_frequency_to_times(medications[meds[k]].frequency))
                  THEN BackfillPos(u, k + 1, 1)
                  ELSE [u |-> u, k |-> k, j |-> j]

\* lines 576-578: one iteration of  for t in times
backfill_ensure ==
    /\ main.pc = "backfill"
    /\ LET p == BackfillPos(main.u, main.k, main.j)
       IN  /\ p.u <= Len(Users)
           /\ LET u == Users[p.u]
                  m == ActiveMeds(u)[p.k]
                  ts == parse_frequency_to_times(medications[m].frequency)
              IN  /\ reminders' =
                        IF ReminderExists(reminders, u, m, ts[p.j]) THEN reminders
                        ELSE Append(reminders, Reminder(u, m, ts[p.j]))
                  /\ main' = [main EXCEPT !.u = p.u, !.k = p.k, !.j = p.j + 1,
                                          !.reran = @ \/ m \in ensured]
                  /\ ensured' = IF p.j = Len(ts) THEN ensured \cup {m} ELSE ensured
    /\ UNCHANGED <<frequency_text, times, now, medications, is_running,
                   reminder_thread, thread, alerts, request,
                   medication_logs>>

\* line 579, and lines 603-608: the loops are exhausted, the backfill
\* returns and initialize_mongodb_app goes on to return True
backfill_return ==
    /\ main.pc = "backfill"
    /\ BackfillPos(main.u, main.k, main.j).u > Len(Users)
    /\ main' = [main EXCEPT !.pc = "start", !.u = 0, !.k = 0, !.j = 0]
    /\ UNCHANGED <<frequency_text, times, now, medications, reminders, is_running,
                   reminder_thread, thread, alerts, request, ensured,
                   medication_logs>>

\* lines 580-581: a store operation of the backfill raises; the exception is
\* printed and initialize_mongodb_app goes on as after a full backfill
backfill_except ==
    /\ main.pc = "backfill"
    /\ main' = [main EXCEPT !.pc = "start", !.u = 0, !.k = 0, !.j = 0,
                            !.completed = FALSE]
    /\ UNCHANGED <<frequency_text, times, now, medications, reminders, is_running,
                   reminder_thread, thread, alerts, request, ensured,
                   medication_logs>>

\* the ids of the active Medications
ActiveIds == {m \in 1..Len(medications) : medications[m].is_active}

\* the main thread entering backfill_reminders_for_all_users (line 601) in
\* a process started for the boots-th time after the first
Boot(boots) ==
    [MainAt("backfill") EXCEPT
        !.u = 1, !.k = 1, !.j = 1, !.boots = boots,
        !.present = ActiveIds,
        !.missing = {m \in ActiveIds : ~Covered(reminders, medications, m)}]

\* the process is killed, with its threads and the requests in hand, and
\* the program is run again (line 629) over the store as it stands
Restart ==
    /\ main.pc \in {"backfill", "start", "serve"}
    /\ main.boots < MaxRestarts
    /\ main' = [Boot(main.boots + 1) EXCEPT !.reran = main.reran,
                                            !.raced = main.raced]
    /\ is_running' = FALSE
    /\ reminder_thread' = 0
    /\ thread' = [t \in Threads |-> NewThread]
    /\ request' = [h \in Handlers |-> NoRequest]
    /\ UNCHANGED <<frequency_text, times, now, medications, reminders, alerts,
                   ensured,
                   medication_logs>>

InitStore ==
    /\ frequency_text = None
    /\ times = <<>>
    /\ now = [day |-> 0, slot |-> 0]
    /\ medications = <<>>
    /\ reminders = <<>>
    /\ is_running = FALSE
    /\ reminder_thread = 0
    /\ thread = [t \in Threads |-> NewThread]
    /\ alerts = EmptyBag
    /\ main = Boot(0)
    /\ request = [h \in Handlers |-> NoRequest]
    /\ ensured = {}
    /\ medication_logs = <<>>

\* the loop thread is followed into its first tick and no further
FirstLoopEnter(t) == ~thread[t].ticked /\ LoopEnter(t)

NextStore ==
    \/ backfill_ensure
    \/ backfill_return
    \/ backfill_except
    \/ MainStart
    \/ \E t \in Threads : FirstLoopEnter(t)
    \/ \E h \in Handlers, u \in {Users[x] : x \in 1..Len(Users)}, n \in Names,
          f \in Frequencies : medications_check(h, u, n, f)
    \/ \E h \in Handlers : medications_save(h)
    \/ \E h \in Handlers : medications_lookup(h)
    \/ \E h \in Handlers : medications_insert(h)
    \/ \E h \in Handlers : medications_except(h)
    \/ \E m \in 1..MaxMeds : delete_medication(m)
    \/ Restart

SpecStore == InitStore /\ [][NextStore]_vars

(***************************************************************************)
(* Properties of the paths that create Reminders, checked under SpecStore. *)
(***************************************************************************)
SameKey(a, b) ==
    /\ a.user_id = b.user_id
    /\ a.medication_id = b.medication_id
    /\ a.time = b.time

\* C4: in every reachable state the store holds at most one Reminder per
\* (user, medication, time), whatever the interleaving of the lookup and
\* insert steps of concurrent request handlers and of the startup backfill.
C4_OneReminderPerKey ==
    \A a, b \in 1..Len(reminders) :
        SameKey(reminders[a], reminders[b]) => a = b

\* two handlers have interleaved lookup and insert for the same user and
\* time (one looked up while the other stood before its insert), both have
\* returned and both Reminders are stored
C4_Witness_HandlersInterleaved ==
    /\ main.raced
    /\ \A h \in Handlers : request[h].pc = "idle"
    /\ \E a, b \in 1..Len(reminders) :
          /\ a < b
          /\ reminders[a].user_id = reminders[b].user_id
          /\ reminders[a].time = reminders[b].time
          /\ {reminders[a].medication_id, reminders[b].medication_id} \subseteq ensured

\* the Medication of the backfill's next iteration
BackfillMedication ==
    LET p == BackfillPos(main.u, main.k, main.j)
    IN  IF main.pc = "backfill" /\ p.u <= Len(Users)
        THEN ActiveMeds(Users[p.u])[p.k] ELSE 0

\* C5: run again for a Medication for which the ensuring loop has already
\* run to its end, an iteration of the loop creates no Reminder, deletes
\* none and leaves every stored Reminder as it was.
C5_SecondRunChangesNothing ==
    [][backfill_ensure /\ BackfillMedication \in ensured
          => reminders' = reminders]_vars

\* a backfill that went through an already ensured Medication has returned
C5_Witness_BackfillReran ==
    /\ main.reran
    /\ main.completed
    /\ main.pc \in {"start", "serve"}
    /\ main.present \cap ensured # {}
    /\ Len(reminders) > 0

\* thread t enters its first tick
FirstTick(t) == ~thread[t].ticked /\ thread'[t].ticked

Fragments ==
    { <<"1","-","1","-","1">>, <<"1","-","1">>, <<"1","-","0">>, <<"0","-","0">>,
      <<"0","-","1">>, <<"-","1">>, <<"-","0">>,
      <<"b","i","d">>, <<"T","D","S">>, <<"T","w","i","c","e">>,
      <<"t","h","r","e","e">>, <<"n","i","g","h","t">>,
      <<"M","o","r","n","i","n","g">>, <<"q","i","d">>, <<"F","O","U","R">>,
      <<" ","d","a","i","l","y">>, <<"x">> }

RECURSIVE Texts(_)
Texts(n) ==
    IF n = 0 THEN {<<>>}
    ELSE Texts(n - 1) \cup {s \o f : s \in Texts(n - 1), f \in Fragments}

ParseInputs == {None} \cup Texts(MaxFragments)

InitParse ==
    /\ frequency_text \in ParseInputs
    /\ times = <<>>
    /\ now = [day |-> 0, slot |-> 0]
    /\ medications = <<>>
    /\ reminders = <<>>
    /\ is_running = FALSE
    /\ reminder_thread = 0
    /\ thread = [t \in Threads |-> NewThread]
    /\ alerts = EmptyBag
    /\ main = MainAt("init")
    /\ request = [h \in 1..MaxRequests |-> NoRequest]
    /\ ensured = {}
    /\ medication_logs = <<>>

\* times = parse_frequency_to_times(frequency_text)
ParseCall ==
    /\ times = <<>>
    /\ times' = parse_frequency_to_times(frequency_text)
    /\ UNCHANGED <<frequency_text, now, medications, reminders, is_running,
                   reminder_thread, thread, alerts, main, request, ensured,
                   medication_logs>>

NextParse == ParseCall

SpecParse == InitParse /\ [][NextParse]_vars

\* the decision list of the frequency interpreter: keywords and times of
\* rules 1..5, in order
Rules ==
    << [kws |-> {kw_1_1_1, kw_three, kw_tds},
        times |-> <<"09:00", "14:00", "20:00">>],
       [kws |-> {kw_1_0_1, kw_twice, kw_bid, kw_0_1_1, kw_1_1_0},
        times |-> <<"09:00", "20:00">>],
       [kws |-> {kw_0_0_1, kw_night},
        times |-> <<"20:00">>],
       [kws |-> {kw_morning, kw_1_0_0},
        times |-> <<"09:00">>],
       [kws |-> {kw_qid, kw_four},
        times |-> <<"08:00", "12:00", "16:00", "20:00">>] >>

\* kw occurs in the text ft, letter case apart (None holds no keyword)
Occurs(kw, ft) ==
    /\ ft # None
    /\ \E off \in 0..(Len(ft) - Len(kw)) :
          \A k \in 1..Len(kw) : lower_char(ft[off + k]) = kw[k]

\* the rules one of whose keywords occurs in ft
Matching(ft) == {k \in 1..Len(Rules) : \E kw \in Rules[k].kws : Occurs(kw, ft)}

\* C6: for every frequency text (None, empty and unrecognised text
\* included) parse_frequency_to_times returns the non-empty time list of the
\* first rule, in the order 1..5, one of whose keywords occurs in the
\* lower-cased text, and <<"09:00">> when no rule matches.
C6_FirstMatchingRule ==
    times # <<>> =>
        /\ Len(times) >= 1
        /\ times = IF Matching(frequency_text) = {}
                   THEN <<"09:00">>
                   ELSE Rules[CHOOSE k \in Matching(frequency_text) :
                                \A o \in Matching(frequency_text) : k <= o].times

\* C6 witness: a text in which keywords of rule 1 and of a later rule
\* co-occur has been parsed to the times of rule 1.
C6_Witness_RulesCoOccur ==
    /\ times = <<"09:00", "14:00", "20:00">>
    /\ 1 \in Matching(frequency_text)
    /\ 2 \in Matching(frequency_text)
    /\ Occurs(kw_bid, frequency_text)

(***************************************************************************)
(* Properties of the reminder service.                                     *)
(***************************************************************************)
\* number of 'medication_reminder' alerts emitted for Reminder r on date d
AlertCount(r, d) ==
    LET S == {a \in BagToSet(alerts) : a.reminder_id = r /\ a.date = d} IN
    BagCardinality([a \in S |-> alerts[a]])

\* position in DayMinutes of the minute a Reminder's time names
TimeIndex(hm) == CHOOSE k \in 1..Len(DayMinutes) : DayMinutes[k].hm = hm

\* the loop threads that exist and have not returned
Alive == {t \in Threads : thread[t].pc \notin {"new", "done"}}

\* the loop threads inside _check_and_send_reminders
InTick == {t \in Threads : thread[t].pc \in {"fetch", "lookup", "save"}}

\* C1 (dedup-by-day): whatever the ticks and the calls of start and stop,
\* every Reminder has caused at most one 'medication_reminder' alert on each
\* calendar date.
C1_AtMostOneAlertPerDay ==
    \A r \in 1..Len(reminders) : \A d \in 0..MaxDay : AlertCount(r, d) <= 1

\* C2: a tick that ends having loaded, as due at its HH:MM, an active
\* Reminder of an existing active Medication (last_sent None or of an earlier
\* date), and whose sending of that Reminder did not itself raise, has sent
\* it: exactly one alert of that date stands emitted, to the room of the
\* Reminder's user, and last_sent is of the tick's date.
C2_DueReminderFires ==
    \A t \in Threads :
        (thread[t].pc = "sleep" /\ thread[t].ticked) =>
            \A r \in thread[t].due :
                ( /\ r # thread[t].failed
                  /\ reminders[r].is_active
                  /\ MedicationExists(reminders[r].medication_id)
                  /\ medications[reminders[r].medication_id].is_active )
                =>
                ( /\ r \in thread[t].fired
                  /\ AlertCount(r, date(thread[t].now_dt)) = 1
                  /\ \A a \in BagToSet(alerts) :
                        a.reminder_id = r => a.room = <<"user_", reminders[r].user_id>>
                  /\ reminders[r].last_sent # NoneDT
                  /\ date(reminders[r].last_sent) = date(thread[t].now_dt) )

\* C3: a tick emits no alert for a Reminder whose Medication the lookup of
\* _send_reminder_alert found deactivated.
C3_NoAlertAfterDeactivation ==
    [][ \A t \in Threads :
          (thread[t].pc = "save" /\ alerts' # alerts /\ thread'[t] # thread[t])
              => thread[t].medication.is_active ]_vars

\* C7 (failure isolation): when the sending of one due Reminder raises in a
\* tick, no other Reminder due in that tick is left unsent by it, and the
\* loop thread goes on (it sleeps and has not returned).
C7_FailureIsolated ==
    \A t \in Threads :
        thread[t].failed # 0 =>
            /\ thread[t].abandoned = {}
            /\ thread[t].pc \in {"sleep", "loop", "fetch", "lookup", "save"}

\* C8 (single worker): at most one loop thread is alive and at most one is
\* inside _check_and_send_reminders.
C8_SingleWorker ==
    /\ Cardinality(Alive) <= 1
    /\ Cardinality(InTick) <= 1

\* C9 (no missed notification): the loop has run since before today began,
\* was never stopped and met no store error; it is between two ticks and the
\* clock is past the minute of an active Reminder of an existing active
\* Medication: then the Reminder was sent today.
C9_NoMissedNotification ==
    \A r \in 1..Len(reminders) :
        ( /\ is_running
          /\ Alive = {1}
          /\ thread[1].pc = "sleep"
          /\ ~thread[1].raised
          /\ now.day >= 1
          /\ MinuteIndex(now) > TimeIndex(reminders[r].time)
          /\ reminders[r].is_active
          /\ MedicationExists(reminders[r].medication_id)
          /\ medications[reminders[r].medication_id].is_active )
        =>
        ( /\ reminders[r].last_sent # NoneDT
          /\ date(reminders[r].last_sent) = date(now) )

(***************************************************************************)
(* Shutdown, checked under SpecShutdown.                                   *)
(***************************************************************************)
\* stop_reminder_service has been called on a service that was started
Stopped == ~is_running /\ reminder_thread # 0

\* the clock has reached the end of the days the model follows
Horizon == Instant(now) = LastInstant

C12_RetriedByNextTick ==
    [][\A t \in Threads :
          /\ (thread[t].failed = 0 /\ thread'[t].failed # 0) =>
                /\ reminders'[thread'[t].failed].last_sent
                      = reminders[thread'[t].failed].last_sent
                /\ alerts' = alerts
          /\ (thread[t].pc = "loop" /\ thread[t].failed # 0
                 /\ thread'[t].pc = "fetch") =>
                Due([id |-> thread[t].failed, doc |-> reminders[thread[t].failed]],
                    thread'[t].now_dt)]_vars

(***************************************************************************)
(* The scheduler's effect on the store, checked under SpecFrame.           *)
(***************************************************************************)
\* a step of loop thread t from the head of the loop or inside a tick
TickStep(t) ==
    /\ thread[t].pc \in {"loop", "fetch", "lookup", "save"}
    /\ thread'[t] # thread[t]

\* C13 (scheduler frame): a step of a tick leaves the Medication and
\* MedicationLog collections as they were, creates and deletes no Reminder,
\* and changes in a Reminder nothing but last_sent, and that only in a
\* Reminder the tick sends in that step.
C13_SchedulerFrame ==
    [][\A t \in Threads : TickStep(t) =>
          /\ medications' = medications
          /\ medication_logs' = medication_logs
          /\ Len(reminders') = Len(reminders)
          /\ \A r \in 1..Len(reminders) :
                \/ reminders'[r] = reminders[r]
                \/ /\ r \in thread'[t].fired \ thread[t].fired
                   /\ reminders'[r] =
                         [reminders[r] EXCEPT !.last_sent = reminders'[r].last_sent]]_vars

\* a tick has sent a Reminder and written its last_sent, and a MedicationLog
\* stands stored by take_medication
C13_Witness_TickSentAndLogTaken ==
    /\ \E t \in Threads : \E r \in thread[t].fired :
          reminders[r].last_sent # NoneDT
    /\ Len(medication_logs) > 0
    /\ \E m \in 1..Len(medications) : ~medications[m].is_active

====
